---- MODULE Spec2Model ----
(***************************************************************************)
(* Token issuance, redemption and reporting of src/server.js, modelled as  *)
(* concurrent request handlers over one shared Token collection.  Every    *)
(* handler is cut at its awaits: one action is one store operation plus    *)
(* the synchronous code that runs before the next await.                   *)
(***************************************************************************)
EXTENDS Integers, Sequences, FiniteSets, TLC

\* ------------------------------------------------------------------ bounds
\* Token values generateToken can return are modelled as 1..MaxId.
MaxId == 2
\* Wall-clock instants are modelled as 1..MaxTime.
MaxTime == 3
\* Number of Token.create calls of one /generate-tokens request (100 in the
\* source, scaled down).
BatchSize == 2

\* --------------------------------------------------------------- constants
\* new Date("2026-12-31") on the model's clock.
ExpiryDate == 2
\* redeem assigns tokenDoc.amount = 100.
RewardAmount == 100
\* schema default of amount.
DefaultAmount == 0
\* a Date path that is not set (redeemedAt before redemption).
NoDate == 0
\* _id of "no document" (findOne returned null).
NoDoc == 0

Ids == 1..MaxId
Times == 1..MaxTime

\* Concurrent request slots of each handler.
Redeemers == {1, 2}
Issuers == {1, 2}

\* process.env.ADMIN_PASSWORD and the x-admin-password header values tried.
AdminPassword == "secret"
NoHeader == "<undefined>"
Headers == {NoHeader, "", "wrong", AdminPassword}

VARIABLES
  store,   \* the Token collection: sequence of documents, _id = position
  now,     \* the wall clock read by new Date()
  rq,      \* GET /redeem/:token requests in flight or answered
  iq,      \* GET /generate-tokens requests
  sq,      \* GET /admin/stats request
  pq       \* GET /admin/product-stats request

vars == <<store, now, rq, iq, sq, pq>>

\* ------------------------------------------------------------ the schema
\* A schema whose amount defaults to the reward.
NewTokenPaid(t) ==
  [ token       |-> t,
    productName |-> "Elite Reward Product",
    batchId     |-> "BATCH2026JAN",
    amount      |-> RewardAmount,
    used        |-> FALSE,
    redeemedAt  |-> NoDate,
    expiryDate  |-> ExpiryDate ]

\* Token.create({token, productName, batchId, expiryDate}) with the schema
\* defaults applied.
NewToken(t) ==
  [ token       |-> t,
    productName |-> "Elite Reward Product",
    batchId     |-> "BATCH2026JAN",
    amount      |-> DefaultAmount,
    used        |-> FALSE,
    redeemedAt  |-> NoDate,
    expiryDate  |-> ExpiryDate ]

\* What a handler holds when findOne returned null.
NullDoc == [NewToken(0) EXCEPT !.expiryDate = NoDate]

\* _ids of the documents matching {token: t}.
Matching(s, t) == {i \in 1..Len(s) : s[i].token = t}

Min(S) == CHOOSE x \in S : \A y \in S : x <= y

\* findOne with a filter that matches every document.
FindOneAny(s, t) == IF Len(s) = 0 THEN NoDoc ELSE 1

\* Token.findOne({token: t}): _id of the first match, NoDoc when none.
FindOne(s, t) == IF Matching(s, t) = {} THEN NoDoc ELSE Min(Matching(s, t))

\* No unique index.
DuplicateKeyNever(s, t) == FALSE

\* The unique index on token: an insert of a token already present throws.
DuplicateKey(s, t) == Matching(s, t) # {}

\* A save that writes the used flag alone.
SaveDocUsedOnly(s, id, doc) == [s EXCEPT ![id] = [@ EXCEPT !.used = doc.used]]

\* tokenDoc.save(): updateOne({_id}, {$set: the modified paths}).  The
\* filter is the _id alone; versionKey is false, so nothing else is tested.
SaveDoc(s, id, doc) ==
  [s EXCEPT ![id] = [@ EXCEPT !.amount = doc.amount,
                              !.used = doc.used,
                              !.redeemedAt = doc.redeemedAt]]

\* -------------------------------------------------------------- responses
NoResp == [status |-> 0, message |-> "", amount |-> 0]
Json(st, msg) == [status |-> st, message |-> msg, amount |-> 0]
AmountJson(a) == [status |-> 200, message |-> "", amount |-> a]

Unauthorized == Json(401, "Unauthorized")
InvalidQR == Json(404, "Invalid QR")
QRExpired == Json(400, "QR expired")
QRAlreadyUsed == Json(400, "QR already used")

\* adminAuth testing only that a header is present.
AdminAuthPresent(h) == ~(h = NoHeader \/ h = "")

\* adminAuth: the request goes on to the handler only with the password.
AdminAuth(h) == ~(h = NoHeader \/ h = "" \/ h # AdminPassword)

\* ------------------------------------------------------------------- Init
IdleRedeem == [pc |-> "idle", token |-> 0, header |-> NoHeader, id |-> NoDoc,
               doc |-> NullDoc, resp |-> NoResp]
IdleIssue == [pc |-> "idle", header |-> NoHeader, i |-> 0, resp |-> NoResp]
\* stable is a history flag: no store write since the request's first query.
IdleStats == [pc |-> "idle", header |-> NoHeader, totalQrs |-> 0,
              redeemed |-> 0, remaining |-> 0, totalPaid |-> 0,
              resp |-> NoResp, stable |-> TRUE]
IdleProduct == [pc |-> "idle", header |-> NoHeader, stats |-> {},
                resp |-> NoResp]

Init ==
  /\ store = << >>
  /\ now = 1
  /\ rq = [c \in Redeemers |-> IdleRedeem]
  /\ iq = [a \in Issuers |-> IdleIssue]
  /\ sq = IdleStats
  /\ pq = IdleProduct

\* A /admin/stats request in progress or answered notes a store write.
Noted(r, s2) ==
  IF r.pc = "idle" \/ s2 = store THEN r ELSE [r EXCEPT !.stable = FALSE]

\* ------------------------------------------------------------------ clock
Tick ==
  /\ now < MaxTime
  /\ now' = now + 1
  /\ UNCHANGED <<store, rq, iq, sq, pq>>

\* ----------------------------------------------------- GET /redeem/:token
\* The request arrives and Token.findOne runs on the store.
RedeemFind(c, t, h) ==
  /\ rq[c].pc = "idle"
  /\ rq' = [rq EXCEPT ![c] =
       [pc |-> "found", token |-> t, header |-> h, id |-> FindOne(store, t),
        doc |-> IF FindOne(store, t) = NoDoc THEN NullDoc
                ELSE store[FindOne(store, t)],
        resp |-> NoResp]]
  /\ UNCHANGED <<store, now, iq, sq, pq>>

\* The expiry check applied to unredeemed tokens only.
ExpiredUnlessUsed(doc, t) ==
  doc.expiryDate # NoDate /\ t > doc.expiryDate /\ ~doc.used

\* The deadline itself counted as past.
ExpiredAtDeadline(doc, t) == doc.expiryDate # NoDate /\ t >= doc.expiryDate

\* new Date() > tokenDoc.expiryDate, for a set expiryDate.
Expired(doc, t) == doc.expiryDate # NoDate /\ t > doc.expiryDate

\* The amount is not assigned.
RedeemedNoAmount(doc, t) == [doc EXCEPT !.used = TRUE, !.redeemedAt = t]

\* The fields assigned before save().
Redeemed(doc, t) ==
  [doc EXCEPT !.amount = RewardAmount, !.used = TRUE, !.redeemedAt = t]

\* The handler has answered: its local tokenDoc is gone, the request and the
\* response remain.
Answered(r, resp) ==
  [r EXCEPT !.pc = "done", !.id = NoDoc, !.doc = NullDoc, !.resp = resp]

\* The checks with a used token stamped again before it is refused.
RedeemCheckTouch(c) ==
  /\ rq[c].pc = "found"
  /\ \/ /\ rq[c].id = NoDoc
        /\ rq' = [rq EXCEPT ![c] = Answered(rq[c], InvalidQR)]
        /\ UNCHANGED <<store, now>>
     \/ /\ rq[c].id # NoDoc
        /\ Expired(rq[c].doc, now)
        /\ rq' = [rq EXCEPT ![c] = Answered(rq[c], QRExpired)]
        /\ UNCHANGED <<store, now>>
     \/ /\ rq[c].id # NoDoc
        /\ ~Expired(rq[c].doc, now)
        /\ rq[c].doc.used
        /\ rq' = [rq EXCEPT ![c] = Answered(rq[c], QRAlreadyUsed)]
        /\ store' = [store EXCEPT ![rq[c].id].redeemedAt = now]
        /\ UNCHANGED now
     \/ /\ rq[c].id # NoDoc
        /\ ~Expired(rq[c].doc, now)
        /\ ~rq[c].doc.used
        /\ \E d \in now..MaxTime :
             /\ now' = d
             /\ rq' = [rq EXCEPT ![c].pc = "saving",
                                 ![c].doc = Redeemed(rq[c].doc, d)]
        /\ UNCHANGED store
  /\ UNCHANGED <<iq, sq, pq>>

\* The checks without the test of tokenDoc.used.
RedeemCheckNoUsed(c) ==
  /\ rq[c].pc = "found"
  /\ \/ /\ rq[c].id = NoDoc
        /\ rq' = [rq EXCEPT ![c] = Answered(rq[c], InvalidQR)]
        /\ UNCHANGED now
     \/ /\ rq[c].id # NoDoc
        /\ Expired(rq[c].doc, now)
        /\ rq' = [rq EXCEPT ![c] = Answered(rq[c], QRExpired)]
        /\ UNCHANGED now
     \/ /\ rq[c].id # NoDoc
        /\ ~Expired(rq[c].doc, now)
        /\ \E d \in now..MaxTime :
             /\ now' = d
             /\ rq' = [rq EXCEPT ![c].pc = "saving",
                                 ![c].doc = Redeemed(rq[c].doc, d)]
  /\ UNCHANGED <<store, iq, sq, pq>>

\* The code between findOne's answer and save(): the three checks, then the
\* assignments to the in-memory document. The clock is read twice, by the
\* expiry check and by redeemedAt = new Date(); the second read d may be
\* later than the first.
RedeemCheck(c) ==
  /\ rq[c].pc = "found"
  /\ \/ /\ rq[c].id = NoDoc
        /\ rq' = [rq EXCEPT ![c] = Answered(rq[c], InvalidQR)]
        /\ UNCHANGED now
     \/ /\ rq[c].id # NoDoc
        /\ Expired(rq[c].doc, now)
        /\ rq' = [rq EXCEPT ![c] = Answered(rq[c], QRExpired)]
        /\ UNCHANGED now
     \/ /\ rq[c].id # NoDoc
        /\ ~Expired(rq[c].doc, now)
        /\ rq[c].doc.used
        /\ rq' = [rq EXCEPT ![c] = Answered(rq[c], QRAlreadyUsed)]
        /\ UNCHANGED now
     \/ /\ rq[c].id # NoDoc
        /\ ~Expired(rq[c].doc, now)
        /\ ~rq[c].doc.used
        /\ \E d \in now..MaxTime :
             /\ now' = d
             /\ rq' = [rq EXCEPT ![c].pc = "saving",
                                 ![c].doc = Redeemed(rq[c].doc, d)]
  /\ UNCHANGED <<store, iq, sq, pq>>

\* save() reaches the store, then res.json({amount: tokenDoc.amount}).
RedeemSave(c) ==
  /\ rq[c].pc = "saving"
  /\ store' = SaveDoc(store, rq[c].id, rq[c].doc)
  /\ rq' = [rq EXCEPT ![c] = Answered(rq[c], AmountJson(rq[c].doc.amount))]
  /\ sq' = Noted(sq, store')
  /\ UNCHANGED <<now, iq, pq>>

\* ----------------------------------------------- the store fails a call
\* Token.findOne rejects (store unreachable or timed out): the await throws
\* into the catch.
RedeemFindFail(c, t, h) ==
  /\ rq[c].pc = "idle"
  /\ rq' = [rq EXCEPT ![c] = [IdleRedeem EXCEPT !.pc = "threw", !.token = t,
                                                !.header = h]]
  /\ UNCHANGED <<store, now, iq, sq, pq>>

\* tokenDoc.save() rejects; the update had reached the store (applied) or
\* had not.
RedeemSaveFail(c, applied) ==
  /\ rq[c].pc = "saving"
  /\ store' = IF applied THEN SaveDoc(store, rq[c].id, rq[c].doc) ELSE store
  /\ rq' = [rq EXCEPT ![c].pc = "threw", ![c].id = NoDoc, ![c].doc = NullDoc]
  /\ sq' = Noted(sq, store')
  /\ UNCHANGED <<now, iq, pq>>

\* A catch that reports the failure as an unknown token.
CaughtAsInvalid == InvalidQR

\* catch (err): res.status(500).json({ message: "Redemption error" }).
Caught == Json(500, "Redemption error")

\* A catch that sends nothing.
RedeemCatchSilent(c) ==
  /\ rq[c].pc = "threw"
  /\ UNCHANGED vars

\* The catch block answers.
RedeemCatch(c) ==
  /\ rq[c].pc = "threw"
  /\ rq' = [rq EXCEPT ![c] = Answered(rq[c], Caught)]
  /\ UNCHANGED <<store, now, iq, sq, pq>>

\* The client has its answer; the slot serves the next request.
RedeemReturn(c) ==
  /\ rq[c].pc = "done"
  /\ rq' = [rq EXCEPT ![c] = IdleRedeem]
  /\ UNCHANGED <<store, now, iq, sq, pq>>

\* ---------------------------------------------------- GET /generate-tokens
\* adminAuth refuses the request.
IssueDenied(a, h) ==
  /\ iq[a].pc = "idle"
  /\ ~AdminAuth(h)
  /\ iq' = [iq EXCEPT ![a] = [pc |-> "done", header |-> h, i |-> 0,
                              resp |-> Unauthorized]]
  /\ UNCHANGED <<store, now, rq, sq, pq>>

\* An upsert: a token already stored is replaced by a fresh document.
CreateUpsert(s, t) ==
  IF Matching(s, t) # {}
  THEN [s EXCEPT ![Min(Matching(s, t))] = NewToken(t)]
  ELSE Append(s, NewToken(t))

\* Token.create(...) of the schema: the unique index refuses a token that
\* is already stored, otherwise the document is appended.
Create(s, t) == IF DuplicateKey(s, t) THEN s ELSE Append(s, NewToken(t))

\* The state of the loop after the Token.create of iteration i, given the
\* store it ran on: a duplicate key throws into the catch (500), the last
\* iteration answers, any other goes on to i + 1.
AfterCreate(r, s, t) ==
  IF DuplicateKey(s, t)
  THEN [r EXCEPT !.pc = "done", !.resp = Json(500, "Error generating tokens")]
  ELSE IF r.i < BatchSize
       THEN [r EXCEPT !.i = @ + 1]
       ELSE [r EXCEPT !.pc = "done",
                      !.resp = Json(200, "100 business-ready tokens created")]

\* adminAuth passes, the loop starts at i = 1 and its first Token.create
\* runs, with t the value generateToken returned.
IssueStart(a, h, t) ==
  /\ iq[a].pc = "idle"
  /\ AdminAuth(h)
  /\ store' = Create(store, t)
  /\ iq' = [iq EXCEPT ![a] =
       AfterCreate([pc |-> "loop", header |-> h, i |-> 1, resp |-> NoResp],
                   store, t)]
  /\ sq' = Noted(sq, store')
  /\ UNCHANGED <<now, rq, pq>>

\* A later Token.create of the loop.
IssueCreate(a, t) ==
  /\ iq[a].pc = "loop"
  /\ store' = Create(store, t)
  /\ iq' = [iq EXCEPT ![a] = AfterCreate(iq[a], store, t)]
  /\ sq' = Noted(sq, store')
  /\ UNCHANGED <<now, rq, pq>>

\* The store rejects the first Token.create of a call for a reason other
\* than a duplicate key (unreachable, timed out): the catch answers 500. The
\* insert the store rejected is either not applied or applied all the same
\* (the write went through, its acknowledgement did not).
IssueStartFail(a, h, t, applied) ==
  /\ iq[a].pc = "idle"
  /\ AdminAuth(h)
  /\ store' = IF applied THEN Create(store, t) ELSE store
  /\ iq' = [iq EXCEPT ![a] =
       [pc |-> "done", header |-> h, i |-> 1,
        resp |-> Json(500, "Error generating tokens")]]
  /\ sq' = Noted(sq, store')
  /\ UNCHANGED <<now, rq, pq>>

\* The store rejects a later Token.create of the loop in the same way.
IssueCreateFail(a, t, applied) ==
  /\ iq[a].pc = "loop"
  /\ store' = IF applied THEN Create(store, t) ELSE store
  /\ iq' = [iq EXCEPT ![a].pc = "done",
                      ![a].resp = Json(500, "Error generating tokens")]
  /\ sq' = Noted(sq, store')
  /\ UNCHANGED <<now, rq, pq>>

IssueReturn(a) ==
  /\ iq[a].pc = "done"
  /\ iq' = [iq EXCEPT ![a] = IdleIssue]
  /\ UNCHANGED <<store, now, rq, sq, pq>>

\* ------------------------------------------------------ GET /admin/stats
\* countDocuments with no filter.
CountAllWhere(s, u) == Len(s)

\* Token.countDocuments({used: u}).
CountWhere(s, u) == Cardinality({i \in 1..Len(s) : s[i].used = u})

\* countDocuments() run with the {used: false} filter.
CountAllUnused(s) == Cardinality({i \in 1..Len(s) : ~s[i].used})

\* Token.countDocuments().
CountAll(s) == Len(s)

\* $group {_id: null, totalPaid: {$sum: "$amount"}} over the documents that
\* pass $match {used: true}, folded in collection order: the accumulator
\* after the first n documents.
RECURSIVE SumPaid(_, _)
SumPaid(s, n) ==
  IF n = 0 THEN 0
  ELSE SumPaid(s, n - 1) + (IF s[n].used THEN s[n].amount ELSE 0)

\* The aggregate's result: no group when no document matches.
Payout(s) ==
  IF CountWhere(s, TRUE) = 0 THEN << >>
  ELSE << [totalPaid |-> SumPaid(s, Len(s))] >>

\* payout[0]?.totalPaid || 0
TotalPaid(p) == IF Len(p) = 0 \/ p[1].totalPaid = 0 THEN 0 ELSE p[1].totalPaid

StatsDenied(h) ==
  /\ sq.pc = "idle"
  /\ ~AdminAuth(h)
  /\ sq' = [IdleStats EXCEPT !.pc = "done", !.header = h,
                             !.resp = Unauthorized]
  /\ UNCHANGED <<store, now, rq, iq, pq>>

\* adminAuth passes; countDocuments() runs.
StatsTotal(h) ==
  /\ sq.pc = "idle"
  /\ AdminAuth(h)
  /\ sq' = [IdleStats EXCEPT !.pc = "countUsed", !.header = h,
                             !.totalQrs = CountAll(store)]
  /\ UNCHANGED <<store, now, rq, iq, pq>>

\* countDocuments({used: true}) runs.
StatsRedeemed ==
  /\ sq.pc = "countUsed"
  /\ sq' = [sq EXCEPT !.pc = "countUnused",
                      !.redeemed = CountWhere(store, TRUE)]
  /\ UNCHANGED <<store, now, rq, iq, pq>>

\* countDocuments({used: false}) runs.
StatsRemaining ==
  /\ sq.pc = "countUnused"
  /\ sq' = [sq EXCEPT !.pc = "aggregate",
                      !.remaining = CountWhere(store, FALSE)]
  /\ UNCHANGED <<store, now, rq, iq, pq>>

\* The aggregate runs and res.json answers the four numbers.
StatsPayout ==
  /\ sq.pc = "aggregate"
  /\ sq' = [sq EXCEPT !.pc = "done",
                      !.totalPaid = TotalPaid(Payout(store)),
                      !.resp = Json(200, "")]
  /\ UNCHANGED <<store, now, rq, iq, pq>>

StatsReturn ==
  /\ sq.pc = "done"
  /\ sq' = IdleStats
  /\ UNCHANGED <<store, now, rq, iq, pq>>

\* ---------------------------------------------- GET /admin/product-stats
\* The redeemed accumulator counting every document.
GroupAddAll(g, d) ==
  IF \E e \in g : e._id = d.productName
  THEN {IF e._id = d.productName
        THEN [e EXCEPT !.total = @ + 1, !.redeemed = @ + 1]
        ELSE e : e \in g}
  ELSE g \cup {[_id |-> d.productName, total |-> 1, redeemed |-> 1]}

\* One document added to the groups of $group {_id: "$productName",
\* total: {$sum: 1}, redeemed: {$sum: {$cond: ["$used", 1, 0]}}}.
GroupAdd(g, d) ==
  IF \E e \in g : e._id = d.productName
  THEN {IF e._id = d.productName
        THEN [e EXCEPT !.total = @ + 1,
                       !.redeemed = @ + (IF d.used THEN 1 ELSE 0)]
        ELSE e : e \in g}
  ELSE g \cup {[_id |-> d.productName, total |-> 1,
                redeemed |-> IF d.used THEN 1 ELSE 0]}

\* The groups after the first n documents.
RECURSIVE GroupByProduct(_, _)
GroupByProduct(s, n) ==
  IF n = 0 THEN {} ELSE GroupAdd(GroupByProduct(s, n - 1), s[n])

ProductDenied(h) ==
  /\ pq.pc = "idle"
  /\ ~AdminAuth(h)
  /\ pq' = [IdleProduct EXCEPT !.pc = "done", !.header = h,
                               !.resp = Unauthorized]
  /\ UNCHANGED <<store, now, rq, iq, sq>>

\* adminAuth passes, the aggregate runs and res.json(stats) answers.
ProductStats(h) ==
  /\ pq.pc = "idle"
  /\ AdminAuth(h)
  /\ pq' = [IdleProduct EXCEPT !.pc = "done", !.header = h,
                               !.stats = GroupByProduct(store, Len(store)),
                               !.resp = Json(200, "")]
  /\ UNCHANGED <<store, now, rq, iq, sq>>

ProductReturn ==
  /\ pq.pc = "done"
  /\ pq' = IdleProduct
  /\ UNCHANGED <<store, now, rq, iq, sq>>

\* ------------------------------------------------------- specifications
\* Two concurrent redemptions, one issuance, the clock.
Next ==
  \/ Tick
  \/ \E c \in Redeemers, t \in Ids : RedeemFind(c, t, NoHeader)
  \/ \E c \in Redeemers : RedeemCheck(c)
  \/ \E c \in Redeemers : RedeemSave(c)
  \/ \E c \in Redeemers : RedeemReturn(c)
  \/ \E a \in {1}, t \in Ids : IssueStart(a, AdminPassword, t)
  \/ \E a \in {1}, t \in Ids : IssueCreate(a, t)
  \/ \E a \in {1} : IssueReturn(a)

Spec == Init /\ [][Next]_vars

\* One redemption at a time (no concurrent redeem calls), one issuance.
NextSeq ==
  \/ Tick
  \/ \E c \in {1}, t \in Ids : RedeemFind(c, t, NoHeader)
  \/ \E c \in {1} : RedeemCheck(c)
  \/ \E c \in {1} : RedeemSave(c)
  \/ \E c \in {1} : RedeemReturn(c)
  \/ \E a \in {1}, t \in Ids : IssueStart(a, AdminPassword, t)
  \/ \E a \in {1}, t \in Ids : IssueCreate(a, t)
  \/ \E a \in {1} : IssueReturn(a)

SpecSeq == Init /\ [][NextSeq]_vars

\* Two concurrent issuances whose inserts the store may reject, one
\* redemption.
NextIssue ==
  \/ Tick
  \/ \E c \in {1}, t \in Ids : RedeemFind(c, t, NoHeader)
  \/ \E c \in {1} : RedeemCheck(c)
  \/ \E c \in {1} : RedeemSave(c)
  \/ \E c \in {1} : RedeemReturn(c)
  \/ \E a \in Issuers, t \in Ids : IssueStart(a, AdminPassword, t)
  \/ \E a \in Issuers, t \in Ids : IssueCreate(a, t)
  \/ \E a \in Issuers, t \in Ids, applied \in BOOLEAN :
       IssueStartFail(a, AdminPassword, t, applied)
  \/ \E a \in Issuers, t \in Ids, applied \in BOOLEAN :
       IssueCreateFail(a, t, applied)
  \/ \E a \in Issuers : IssueReturn(a)

SpecIssue == Init /\ [][NextIssue]_vars

\* The reporting endpoints beside one redemption and one issuance.
NextStats ==
  \/ \E c \in {1}, t \in Ids : RedeemFind(c, t, NoHeader)
  \/ \E c \in {1} : RedeemCheck(c)
  \/ \E c \in {1} : RedeemSave(c)
  \/ \E c \in {1} : RedeemReturn(c)
  \/ \E a \in {1}, t \in Ids : IssueStart(a, AdminPassword, t)
  \/ \E a \in {1}, t \in Ids : IssueCreate(a, t)
  \/ \E a \in {1} : IssueReturn(a)
  \/ StatsTotal(AdminPassword)
  \/ StatsRedeemed
  \/ StatsRemaining
  \/ StatsPayout
  \/ StatsReturn
  \/ ProductStats(AdminPassword)
  \/ ProductReturn

SpecStats == Init /\ [][NextStats]_vars

\* Every endpoint with every header value, from a client that waits for
\* the answer of one request before it sends the next.
NoneInProgress ==
  /\ \A c \in Redeemers : rq[c].pc \in {"idle", "done"}
  /\ \A a \in Issuers : iq[a].pc \in {"idle", "done"}
  /\ sq.pc \in {"idle", "done"}
  /\ pq.pc \in {"idle", "done"}

NextAdmin ==
  \/ NoneInProgress /\ \E t \in Ids, h \in {NoHeader, "wrong"} : RedeemFind(1, t, h)
  \/ RedeemCheck(1)
  \/ RedeemSave(1)
  \/ RedeemReturn(1)
  \/ NoneInProgress /\ \E h \in Headers : IssueDenied(1, h)
  \/ NoneInProgress /\ \E h \in Headers, t \in Ids : IssueStart(1, h, t)
  \/ \E t \in Ids : IssueCreate(1, t)
  \/ IssueReturn(1)
  \/ NoneInProgress /\ \E h \in Headers : StatsDenied(h)
  \/ NoneInProgress /\ \E h \in Headers : StatsTotal(h)
  \/ StatsRedeemed
  \/ StatsRemaining
  \/ StatsPayout
  \/ StatsReturn
  \/ NoneInProgress /\ \E h \in Headers : ProductDenied(h)
  \/ NoneInProgress /\ \E h \in Headers : ProductStats(h)
  \/ ProductReturn

SpecAdmin == Init /\ [][NextAdmin]_vars

\* Two concurrent redemptions over a store that may fail any call.
NextFail ==
  \/ Tick
  \/ \E c \in Redeemers, t \in Ids : RedeemFind(c, t, NoHeader)
  \/ \E c \in Redeemers, t \in Ids : RedeemFindFail(c, t, NoHeader)
  \/ \E c \in Redeemers : RedeemCheck(c)
  \/ \E c \in Redeemers : RedeemSave(c)
  \/ \E c \in Redeemers, applied \in BOOLEAN : RedeemSaveFail(c, applied)
  \/ \E c \in Redeemers : RedeemCatch(c)
  \/ \E c \in Redeemers : RedeemReturn(c)
  \/ \E a \in {1}, t \in Ids : IssueStart(a, AdminPassword, t)
  \/ \E a \in {1}, t \in Ids : IssueCreate(a, t)
  \/ \E a \in {1}, t \in Ids, applied \in BOOLEAN :
       IssueStartFail(a, AdminPassword, t, applied)
  \/ \E a \in {1}, t \in Ids, applied \in BOOLEAN :
       IssueCreateFail(a, t, applied)
  \/ \E a \in {1} : IssueReturn(a)

SpecFail == Init /\ [][NextFail]_vars

\* One call per request slot and one issuance over the failing store, under
\* fair scheduling: the event loop runs every continuation that is ready,
\* and the store answers or fails every call made to it.
NextLive ==
  \/ Tick
  \/ \E c \in Redeemers, t \in Ids : RedeemFind(c, t, NoHeader)
  \/ \E c \in Redeemers, t \in Ids : RedeemFindFail(c, t, NoHeader)
  \/ \E c \in Redeemers : RedeemCheck(c)
  \/ \E c \in Redeemers : RedeemSave(c)
  \/ \E c \in Redeemers, applied \in BOOLEAN : RedeemSaveFail(c, applied)
  \/ \E c \in Redeemers : RedeemCatch(c)
  \/ \E a \in {1}, t \in Ids : IssueStart(a, AdminPassword, t)
  \/ \E a \in {1}, t \in Ids : IssueCreate(a, t)
  \/ \E a \in {1}, t \in Ids, applied \in BOOLEAN :
       IssueStartFail(a, AdminPassword, t, applied)
  \/ \E a \in {1}, t \in Ids, applied \in BOOLEAN :
       IssueCreateFail(a, t, applied)

SpecLive ==
  /\ Init /\ [][NextLive]_vars
  /\ \A c \in Redeemers :
       /\ WF_vars(RedeemCheck(c))
       /\ WF_vars(RedeemSave(c) \/ \E applied \in BOOLEAN :
                                     RedeemSaveFail(c, applied))
       /\ WF_vars(RedeemCatch(c))

\* One caller over a store that may fail any call: request 1 is the
\* original redeem call; when it has ended in "Redemption error" the caller
\* retries the same token in request 2, any number of times, one retry at a
\* time.
RetryOf(t) ==
  /\ rq[1].pc = "done" /\ rq[1].resp = Caught
  /\ rq[1].token = t

NextRetry ==
  \/ Tick
  \/ \E t \in Ids : RedeemFind(1, t, NoHeader)
  \/ \E t \in Ids : RedeemFindFail(1, t, NoHeader)
  \/ \E t \in Ids : RetryOf(t) /\ RedeemFind(2, t, NoHeader)
  \/ \E t \in Ids : RetryOf(t) /\ RedeemFindFail(2, t, NoHeader)
  \/ \E c \in Redeemers : RedeemCheck(c)
  \/ \E c \in Redeemers : RedeemSave(c)
  \/ \E c \in Redeemers, applied \in BOOLEAN : RedeemSaveFail(c, applied)
  \/ \E c \in Redeemers : RedeemCatch(c)
  \/ rq[2].pc = "idle" /\ RedeemReturn(1)
  \/ RedeemReturn(2)
  \/ \E a \in {1}, t \in Ids : IssueStart(a, AdminPassword, t)
  \/ \E a \in {1}, t \in Ids : IssueCreate(a, t)
  \/ \E a \in {1}, t \in Ids, applied \in BOOLEAN :
       IssueStartFail(a, AdminPassword, t, applied)
  \/ \E a \in {1}, t \in Ids, applied \in BOOLEAN :
       IssueCreateFail(a, t, applied)
  \/ \E a \in {1} : IssueReturn(a)

SpecRetry == Init /\ [][NextRetry]_vars

\* The expiry test on documents of any expiryDate the schema allows (a date
\* or none): the collection holds one or two unredeemed tokens when the
\* server starts, and one redeem call runs at a time.
SeedDoc(t, e) == [NewToken(t) EXCEPT !.expiryDate = e]
ExpiryDates == {NoDate} \cup Times
SeedStores ==
  {<<SeedDoc(1, e)>> : e \in ExpiryDates}
    \cup {<<SeedDoc(1, e1), SeedDoc(2, e2)>> : e1, e2 \in ExpiryDates}

InitExpiry ==
  /\ store \in SeedStores
  /\ now = 1
  /\ rq = [c \in Redeemers |-> IdleRedeem]
  /\ iq = [a \in Issuers |-> IdleIssue]
  /\ sq = IdleStats
  /\ pq = IdleProduct

NextExpiry ==
  \/ Tick
  \/ \E t \in Ids : RedeemFind(1, t, NoHeader)
  \/ RedeemCheck(1)
  \/ RedeemSave(1)
  \/ RedeemReturn(1)

SpecExpiry == InitExpiry /\ [][NextExpiry]_vars

\* Two concurrent redemptions, one call per request slot, so that every
\* answer given so far is still on record, and one issuance.
NextPay ==
  \/ Tick
  \/ \E c \in Redeemers, t \in Ids : RedeemFind(c, t, NoHeader)
  \/ \E c \in Redeemers : RedeemCheck(c)
  \/ \E c \in Redeemers : RedeemSave(c)
  \/ \E a \in {1}, t \in Ids : IssueStart(a, AdminPassword, t)
  \/ \E a \in {1}, t \in Ids : IssueCreate(a, t)
  \/ \E a \in {1} : IssueReturn(a)

SpecPay == Init /\ [][NextPay]_vars

\* ------------------------------------------------------------ properties
InFlight(c) == rq[c].pc \in {"found", "saving"}
Done(c) == rq[c].pc = "done"
Success(c) == Done(c) /\ rq[c].resp.status = 200
Stored(t) == \E i \in 1..Len(store) : store[i].token = t
StoredUsed(t) == \E i \in 1..Len(store) : store[i].token = t /\ store[i].used

\* C1 (at-most-one winner): of the redeem calls on one token, at most one is
\* answered with success; two calls on the same token are never both
\* answered {amount}.
AtMostOneWinner ==
  \A c1, c2 \in Redeemers :
    (c1 # c2 /\ Success(c1) /\ Success(c2)) => rq[c1].token # rq[c2].token

\* C2 (written once): a step never changes the amount or the redeemedAt of a
\* token that is already Redeemed.
RedeemedFieldsFrozen ==
  [][\A i \in 1..Len(store) :
       store[i].used =>
         /\ store'[i].amount = store[i].amount
         /\ store'[i].redeemedAt = store[i].redeemedAt]_vars

\* C3 (monotonic state): no step removes a token or moves a Redeemed token
\* (used = true) back to Unredeemed.
MonotonicState ==
  [][/\ Len(store') >= Len(store)
     /\ \A i \in 1..Len(store) :
          /\ store'[i].token = store[i].token
          /\ store[i].used => store'[i].used]_vars

\* A Redeemed token on which a later redeem call was answered, followed by
\* more issuance.
MonotonicStateWitness ==
  \E c \in Redeemers, i \in 1..Len(store) :
    /\ Done(c) /\ rq[c].resp = QRAlreadyUsed
    /\ store[i].token = rq[c].token /\ store[i].used
    /\ Len(store) > i

\* C4 (expiry precedence): when the checks of a redeem call run on a found
\* token whose expiryDate is set and in the past, the call is answered
\* "QR expired", whether the token is Redeemed or not.
ExpiryPrecedence ==
  [][\A c \in Redeemers :
       ( /\ rq[c].pc = "found" /\ rq'[c].pc # "found"
         /\ rq[c].id # NoDoc
         /\ rq[c].doc.expiryDate # NoDate
         /\ now > rq[c].doc.expiryDate )
       => (rq'[c].pc = "done" /\ rq'[c].resp = QRExpired)]_vars

\* Two calls answered "QR expired", one on a Redeemed token and one on a
\* token that was never redeemed.
ExpiryPrecedenceWitness ==
  \E c1, c2 \in Redeemers :
    /\ Done(c1) /\ rq[c1].resp = QRExpired /\ StoredUsed(rq[c1].token)
    /\ Done(c2) /\ rq[c2].resp = QRExpired /\ Stored(rq[c2].token)
    /\ ~StoredUsed(rq[c2].token)

\* C5 (sequential single use), with no two redeem calls in flight together:
\* the checks of a call on a found token that has not expired send it to
\* save() when the token is Unredeemed and answer "QR already used" when it
\* is Redeemed; save() redeems the token and answers {amount: 100}.
SequentialSingleUse ==
  [][\A c \in Redeemers :
       /\ ( /\ rq[c].pc = "found" /\ rq'[c].pc # "found"
            /\ rq[c].id # NoDoc
            /\ now <= store[rq[c].id].expiryDate )
          => IF store[rq[c].id].used
             THEN rq'[c].pc = "done" /\ rq'[c].resp = QRAlreadyUsed
             ELSE rq'[c].pc = "saving"
       /\ (rq[c].pc = "saving" /\ rq'[c].pc # "saving")
          => /\ ~store[rq[c].id].used
             /\ store'[rq[c].id].used
             /\ rq'[c].pc = "done"
             /\ rq'[c].resp = [status |-> 200, message |-> "", amount |-> 100]
     ]_vars

\* A second redeem of a token that has not expired was answered "QR already
\* used".
SequentialSingleUseWitness ==
  \E c \in Redeemers :
    /\ Done(c) /\ rq[c].resp = QRAlreadyUsed
    /\ StoredUsed(rq[c].token) /\ now <= ExpiryDate

\* C6 (not found): a redeem call whose token matches no stored document is
\* answered "Invalid QR" (404).
NotFound ==
  /\ [](\A c \in Redeemers :
          (Done(c) /\ ~Stored(rq[c].token)) => rq[c].resp = InvalidQR)
  /\ [][\A c \in Redeemers :
          /\ ( /\ rq[c].pc = "idle" /\ rq'[c].pc = "found"
               /\ ~Stored(rq'[c].token) )
             => rq'[c].id = NoDoc
          /\ (rq[c].pc = "found" /\ rq'[c].pc # "found" /\ rq[c].id = NoDoc)
             => (rq'[c].pc = "done" /\ rq'[c].resp = InvalidQR)]_vars

\* A call on an unknown token answered "Invalid QR" while other tokens are
\* stored, some of them Redeemed.
NotFoundWitness ==
  \E c \in Redeemers :
    /\ Done(c) /\ rq[c].resp = InvalidQR /\ ~Stored(rq[c].token)
    /\ \E i \in 1..Len(store) : store[i].used

\* C10 (uniqueness): no two stored documents have the same token.
Uniqueness ==
  \A i, j \in 1..Len(store) : i # j => store[i].token # store[j].token

\* An issuance was refused on a duplicate token (500) while another issuance
\* is still in its loop.
UniquenessWitness ==
  \E a, b \in Issuers :
    /\ iq[a].pc = "done" /\ iq[a].resp.status = 500
    /\ iq[b].pc = "loop"
    /\ Len(store) >= 1

\* The sum of the stored amounts of the documents with _id in S.
RECURSIVE AmountOf(_)
AmountOf(S) ==
  IF S = {} THEN 0
  ELSE LET i == CHOOSE x \in S : TRUE
       IN store[i].amount + AmountOf(S \ {i})

UsedIds == {i \in 1..Len(store) : store[i].used}

\* C7 (aggregation consistency): a /admin/stats answer whose queries ran with
\* no store write since the request began reports totalQrs = n, redeemed = k,
\* remaining = n - k and totalPaid = the sum of the amounts of the k redeemed
\* tokens, for the n stored tokens of which k are Redeemed.
AggregationConsistency ==
  (sq.pc = "done" /\ sq.resp.status = 200 /\ sq.stable) =>
    /\ sq.totalQrs = Len(store)
    /\ sq.redeemed = Cardinality(UsedIds)
    /\ sq.remaining = Len(store) - Cardinality(UsedIds)
    /\ sq.totalPaid = AmountOf(UsedIds)

\* Stats answered for two stored tokens of which one is Redeemed, nothing in
\* flight.
AggregationConsistencyWitness ==
  /\ sq.pc = "done" /\ sq.resp.status = 200 /\ sq.stable
  /\ Len(store) = 2 /\ Cardinality(UsedIds) = 1
  /\ sq.totalPaid = 100
  /\ NoneInProgress

ProductNames == {store[i].productName : i \in 1..Len(store)}
OfProduct(p) == {i \in 1..Len(store) : store[i].productName = p}

\* C8 (product stats): the answer of /admin/product-stats has, for every
\* productName in the store, one entry with total = the number of its tokens
\* and redeemed = the number of its Redeemed tokens, and no other entry.
ProductStatsCorrect ==
  [][(pq.pc = "idle" /\ pq'.pc = "done" /\ pq'.resp.status = 200) =>
       pq'.stats =
         {[_id |-> p,
           total |-> Cardinality(OfProduct(p)),
           redeemed |-> Cardinality(OfProduct(p) \cap UsedIds)] :
            p \in ProductNames}]_vars

\* Product stats answered with total 2 and redeemed 1 for the product.
ProductStatsWitness ==
  /\ pq.pc = "done"
  /\ pq.stats = {[_id |-> "Elite Reward Product", total |-> 2, redeemed |-> 1]}
  /\ Len(store) = 2 /\ Cardinality(UsedIds) = 1

\* C9 (admin gate): a request to /generate-tokens, /admin/stats or
\* /admin/product-stats whose x-admin-password header is absent, empty or
\* different from the password is answered 401 Unauthorized, the same answer
\* in each case, without any store operation of its own (nothing read into
\* the request, store unchanged by the step); with the password it is not
\* answered Unauthorized.  A redeem request, whatever its header, is
\* never answered Unauthorized and goes on to findOne.
Refused(r) == r.pc = "done" /\ r.resp = Unauthorized
Gated(r) ==
  r.pc # "idle" =>
    IF r.header = AdminPassword THEN r.resp # Unauthorized ELSE Refused(r)

AdminGate ==
  /\ [](/\ \A a \in Issuers : Gated(iq[a]) /\ (Refused(iq[a]) => iq[a].i = 0)
        /\ Gated(sq)
        /\ Refused(sq) => (sq.totalQrs = 0 /\ sq.redeemed = 0
                           /\ sq.remaining = 0 /\ sq.totalPaid = 0)
        /\ Gated(pq)
        /\ Refused(pq) => pq.stats = {}
        /\ \A c \in Redeemers : rq[c].resp # Unauthorized)
  /\ [][/\ (\/ \E a \in Issuers : ~Refused(iq[a]) /\ Refused(iq'[a])
            \/ ~Refused(sq) /\ Refused(sq')
            \/ ~Refused(pq) /\ Refused(pq'))
           => store' = store
        /\ \A c \in Redeemers :
             (rq[c].pc = "idle" /\ rq'[c].pc # "idle") =>
                /\ rq'[c].pc = "found"
                /\ rq'[c].id = NoDoc <=> ~Stored(rq'[c].token)]_vars

\* The three gated endpoints refused, one for an absent, one for an empty and
\* one for a wrong header, a redeem without header answered {amount}, on a
\* store that holds tokens.
AdminGateWitness ==
  /\ Refused(iq[1]) /\ iq[1].header = NoHeader
  /\ Refused(sq) /\ sq.header = "wrong"
  /\ Refused(pq) /\ pq.header = ""
  /\ Success(1) /\ rq[1].header = NoHeader
  /\ Len(store) = 2


\* C11 (atomic snapshot): in every store state each document has redeemedAt
\* set exactly when it is Redeemed, amount 0 while it is Unredeemed and the
\* assigned amount once it is Redeemed: save() writes the three fields in
\* one update.
TokenFieldsTogether ==
  \A i \in 1..Len(store) :
    /\ store[i].redeemedAt # NoDate <=> store[i].used
    /\ ~store[i].used => store[i].amount = 0
    /\ store[i].used => store[i].amount = 100

\* A Redeemed and an Unredeemed token side by side while another save() is
\* on its way to the Redeemed one.
TokenFieldsTogetherWitness ==
  /\ Len(store) = 2
  /\ store[1].used /\ ~store[2].used
  /\ \E c \in Redeemers : rq[c].pc = "saving" /\ rq[c].id = 1


\* What C12 says of every step of the caller's original call and retries
\* except the answer of a retry on a Redeemed token: a Redeemed token is not
\* written again, and a call is answered with success only by the one step
\* that moves its token from Unredeemed to Redeemed.
TransitionedOnce ==
  /\ \A i \in 1..Len(store) : store[i].used => store'[i] = store[i]
  /\ \A c \in Redeemers :
       (~Success(c) /\ rq'[c].pc = "done" /\ rq'[c].resp.status = 200) =>
          /\ rq[c].pc = "saving"
          /\ ~store[rq[c].id].used /\ store'[rq[c].id].used

\* The checks of call c run on a found token that is Redeemed in the store.
ChecksOnRedeemed(c) ==
  /\ rq[c].pc = "found" /\ rq'[c].pc # "found"
  /\ rq[c].id # NoDoc
  /\ store[rq[c].id].used

\* C12 as stated (retry safety): across a Transient failure and the retries
\* the token is transitioned at most once, at most one call returns success,
\* and any retry made once the token is Redeemed returns AlreadyUsed.
RetryAlwaysAlreadyUsed ==
  [][/\ TransitionedOnce
     /\ \A c \in Redeemers :
          ChecksOnRedeemed(c) =>
            (rq'[c].pc = "done" /\ rq'[c].resp = QRAlreadyUsed)]_vars

\* C12 amended: ... and a retry made once the token is Redeemed never
\* returns success: it returns AlreadyUsed while the token has not expired,
\* Expired once it has, and Transient when its own lookup fails.
RetrySafety ==
  [][/\ TransitionedOnce
     /\ \A c \in Redeemers :
          /\ ChecksOnRedeemed(c) =>
               /\ rq'[c].pc = "done"
               /\ rq'[c].resp = IF now > store[rq[c].id].expiryDate
                                THEN QRExpired ELSE QRAlreadyUsed
          /\ (rq[c].pc = "threw" /\ rq'[c].pc # "threw") =>
               (rq'[c].pc = "done" /\ rq'[c].resp.status = 500)]_vars

\* The original call ended in "Redemption error" although its write reached
\* the store, and the retry was answered "QR already used".
RetrySafetyWitness ==
  /\ rq[1].pc = "done" /\ rq[1].resp.status = 500
  /\ rq[2].pc = "done" /\ rq[2].resp = QRAlreadyUsed
  /\ rq[2].token = rq[1].token /\ StoredUsed(rq[1].token)


\* C13 (no downgrade): a redeem call whose findOne or save() was failed by
\* the store is answered 500 "Redemption error", never "Invalid QR", "QR
\* expired", "QR already used" or {amount}; and only such calls are.
NoDowngrade ==
  /\ [][\A c \in Redeemers :
          (rq[c].pc = "threw" /\ rq'[c].pc # "threw") =>
            /\ rq'[c].pc = "done"
            /\ rq'[c].resp = [status |-> 500, message |-> "Redemption error",
                              amount |-> 0]]_vars
  /\ [][\A c \in Redeemers :
          (rq[c].pc # "threw" /\ rq'[c].pc = "done" /\ ~Done(c)) =>
            rq'[c].resp.status # 500]_vars

\* One call answered 500 after a failed lookup of a token that is not
\* stored, another after a failed save() of a token that is stored.
NoDowngradeWitness ==
  \E c1, c2 \in Redeemers :
    /\ Done(c1) /\ rq[c1].resp.status = 500 /\ ~Stored(rq[c1].token)
    /\ Done(c2) /\ rq[c2].resp.status = 500 /\ StoredUsed(rq[c2].token)


RedeemOutcomes ==
  {[status |-> 200, message |-> "", amount |-> 100],
   InvalidQR, QRExpired, QRAlreadyUsed,
   [status |-> 500, message |-> "Redemption error", amount |-> 0]}

\* C14 (termination): every redeem call that has started is eventually
\* answered, whatever the other call does, and its answer is one of success,
\* NotFound, Expired, AlreadyUsed and Transient.
EveryRedeemReturns ==
  /\ \A c \in Redeemers :
       (rq[c].pc \in {"found", "saving", "threw"}) ~> (rq[c].pc = "done")
  /\ [](\A c \in Redeemers : Done(c) => rq[c].resp \in RedeemOutcomes)

\* Two calls on the same token were in flight together and both were
\* answered, one with success and one with "Redemption error".
EveryRedeemReturnsWitness ==
  \E c1, c2 \in Redeemers :
    /\ c1 # c2 /\ rq[c1].token = rq[c2].token
    /\ Success(c1)
    /\ Done(c2) /\ rq[c2].resp.status = 500
    /\ StoredUsed(rq[c1].token)


Refusals == {InvalidQR, QRExpired, QRAlreadyUsed}

\* C15 (refusals write nothing): a redeem call answered "Invalid QR", "QR
\* expired" or "QR already used" is answered by its checks, straight after
\* its findOne, and neither of its two steps changes any document of the
\* store.
RefusalLeavesStore ==
  [][\A c \in Redeemers :
       /\ (~Done(c) /\ rq'[c].pc = "done" /\ rq'[c].resp \in Refusals) =>
             (rq[c].pc = "found" /\ store' = store)
       /\ (rq[c].pc = "idle" /\ rq'[c].pc = "found") => store' = store]_vars

\* A call refused with "QR already used" on the token another call redeemed,
\* and the token still carries what the winner wrote.
RefusalLeavesStoreWitness ==
  \E c1, c2 \in Redeemers : \E i \in 1..Len(store) :
    /\ Success(c1) /\ Done(c2) /\ rq[c2].resp = QRAlreadyUsed
    /\ rq[c1].token = rq[c2].token /\ store[i].token = rq[c1].token
    /\ store[i].used /\ store[i].amount = rq[c1].resp.amount


\* C16 (issuance does not interfere): a step of an issuance leaves the store
\* as it is or appends one document with a token not yet stored, used =
\* false, amount 0 and no redeemedAt, every other document unchanged; a step
\* of a redemption that writes changes only the document it found, setting
\* the fields it assigned, whatever was issued meanwhile.
IssuanceOnlyAdds ==
  [][/\ iq' # iq =>
          \/ store' = store
          \/ \E t \in Ids :
               /\ ~Stored(t)
               /\ store' = Append(store,
                    [token |-> t, productName |-> "Elite Reward Product",
                     batchId |-> "BATCH2026JAN", amount |-> 0,
                     used |-> FALSE, redeemedAt |-> 0,
                     expiryDate |-> ExpiryDate])
     /\ (rq' # rq /\ store' # store) =>
          \E c \in Redeemers :
            /\ rq[c].pc = "saving" /\ rq'[c].pc = "done"
            /\ store[rq[c].id].token = rq[c].token
            /\ store' = [store EXCEPT ![rq[c].id] =
                 [@ EXCEPT !.amount = 100, !.used = TRUE,
                           !.redeemedAt = rq[c].doc.redeemedAt]]]_vars

\* A token redeemed while both issuances were in their loops, with the token
\* issued after it still Unredeemed.
IssuanceOnlyAddsWitness ==
  /\ iq[1].pc = "loop" /\ iq[2].pc = "loop"
  /\ Len(store) = 2
  /\ store[1].used /\ ~store[2].used /\ store[2].amount = 0
  /\ Success(1) /\ rq[1].token = store[1].token


\* C17 (strict, optional expiry): when the checks of a redeem call run on a
\* found token at a time equal to or before its expiryDate, or on a token
\* with no expiryDate at any time, the call is not answered "QR expired";
\* if the token is Unredeemed the call goes on to save().
StrictOptionalExpiry ==
  [][\A c \in Redeemers :
       ( /\ rq[c].pc = "found" /\ rq'[c].pc # "found"
         /\ rq[c].id # NoDoc
         /\ \/ store[rq[c].id].expiryDate = 0
            \/ now <= store[rq[c].id].expiryDate )
       => /\ rq'[c].resp # QRExpired
          /\ ~store[rq[c].id].used => rq'[c].pc = "saving"]_vars

\* A token redeemed at the very instant of its expiryDate, and a token with
\* no expiryDate redeemed at the last instant of the clock.
StrictOptionalExpiryWitness ==
  /\ Len(store) = 2
  /\ store[1].used /\ store[1].expiryDate > 1
  /\ store[1].redeemedAt = store[1].expiryDate
  /\ store[2].used /\ store[2].expiryDate = NoDate
  /\ store[2].redeemedAt = MaxTime
  /\ Success(1)


\* The sum of the amounts answered to the successful calls among S.
RECURSIVE PaidTo(_)
PaidTo(S) ==
  IF S = {} THEN 0
  ELSE LET c == CHOOSE x \in S : TRUE
       IN (IF Success(c) THEN rq[c].resp.amount ELSE 0) + PaidTo(S \ {c})

\* C18 (no double payment): with no redeem call in flight, the amounts
\* answered to successful redeem calls add up to the totalPaid that
\* /admin/stats computes from the store, and the number of successful
\* answers is its redeemed count.
NoDoublePayment ==
  (\A c \in Redeemers : ~InFlight(c)) =>
    /\ PaidTo(Redeemers) = TotalPaid(Payout(store))
    /\ Cardinality({c \in Redeemers : Success(c)}) = CountWhere(store, TRUE)


\* C19 as stated (counts add up): every /admin/stats answer has redeemed +
\* remaining = totalQrs.
StatsCountsAddUp ==
  (sq.pc = "done" /\ sq.resp.status = 200) =>
    sq.redeemed + sq.remaining = sq.totalQrs

\* C19 amended: an /admin/stats answer has redeemed + remaining = totalQrs
\* when no save() or create changed the store between the request's queries.
StatsCountsAddUpWhenStable ==
  (sq.pc = "done" /\ sq.resp.status = 200 /\ sq.stable) =>
    sq.redeemed + sq.remaining = sq.totalQrs

\* Stats answered 2 = 1 + 1 while a redeem call that has not yet written is
\* in flight.
StatsCountsAddUpWitness ==
  /\ sq.pc = "done" /\ sq.resp.status = 200 /\ sq.stable
  /\ sq.totalQrs = 2 /\ sq.redeemed = 1 /\ sq.remaining = 1
  /\ InFlight(1)


\* The tokens the call of issuer a has inserted before its current
\* Token.create: none before the first iteration, i - 1 before iteration i.
InsertedBefore(a) == IF iq[a].pc = "loop" THEN iq[a].i - 1 ELSE 0

\* C20 (batch issuance is all-or-nothing): the Token.create step that ends
\* an issuance call with an error leaves none of that call's tokens in the
\* store, and the step that ends it with success leaves all of them.
IssuanceAllOrNothing ==
  [][\A a \in Issuers :
       (iq[a].pc \in {"idle", "loop"} /\ iq'[a].pc = "done") =>
         IF iq'[a].resp.status = 500
         THEN Len(store') = Len(store) - InsertedBefore(a)
         ELSE Len(store') = Len(store) + 1 /\ InsertedBefore(a) + 1 = BatchSize
    ]_vars

====
